---- MODULE Spec2Model ----
(***************************************************************************)
(* Ripple simulation core of src/bundle.js: the DOMContentLoaded handler   *)
(* (l.130-292) with its two ping-ponged render targets, the simulation     *)
(* fragment shader (l.14-86), the pointer/touch adapter and the resize     *)
(* handler.                                                                *)
(*                                                                         *)
(* Numbers.  GLSL floats are modelled in fixed point: heights and          *)
(* velocities in units of 1/Scale, uv coordinates in units of 1/UvScale,   *)
(* pointer coordinates in units of 1/MouseScale texel, products rounded to *)
(* the nearest unit (Rnd).  dpr is kept in quarters (1.25 = 5/4).          *)
(*                                                                         *)
(* Field contents.  The shader samples textureA only at uv and at          *)
(* uv +- (texelSize.x, 0) (l.45-47), so a row of the field never depends   *)
(* on another row.  A buffer's contents are kept for the rows Rows(h):     *)
(* every row of a field of at most RowCap rows, and the middle row only    *)
(* of a taller field.                                                      *)
(***************************************************************************)
EXTENDS Integers, Sequences, FiniteSets, TLC

VARIABLES
    pc,            \* "loading" | "running" | "aborted": the DOMContentLoaded handler
    win,           \* the host: hasCanvas, innerWidth, innerHeight, devicePixelRatio (quarters)
    now,           \* performance.now() in ms
    boot,          \* the handler's consts: isMobile, dpr, simResFactor, simWidth, simHeight
    size,          \* let width, height (l.154-155, l.257-258)
    canvas,        \* renderer.setSize(w, h, false): the drawing buffer size
    rt,            \* the two WebGLRenderTarget objects: width, height, data, tag
    rtA, rtB,      \* which object each of the variables rtA, rtB refers to
    simU,          \* simMaterial.uniforms
    renderU,       \* renderMaterial.uniforms
    frame,         \* let frame (l.208)
    lastTouchTime, \* let lastTouchTime (l.209)
    host,          \* listeners registered, console.error calls, frame callbacks requested
    cycle,         \* history: what the last frame cycle read, wrote and presented
    touch,         \* history: the last touchmove event
    pointer        \* history: the last pointer update, and whether the pointer is off

vars == <<pc, win, now, boot, size, canvas, rt, rtA, rtB, simU, renderU, frame,
          lastTouchTime, host, cycle, touch, pointer>>

----------------------------------------------------------------------------
(* Bounds of the model *)

MaxFrame == 3          \* the frame counter is not advanced past this value
MaxTime == 16          \* the clock is not advanced past this value (ms)
MaxTouchTime == 48     \* the same, in the specification of the touch throttle
RowCap == 5            \* fields of more rows are kept on their middle row only
SettleSteps == 500     \* the number of steps of the settling scenario

(* Program constants *)

MobileMaxWidth == 768  \* window.innerWidth < 768
HighTierWidth == 500   \* step(500.0, resolution.x)
TouchThrottle == 16    \* now - lastTouchTime < 16
DeltaBase == 720       \* deltaBase = 0.72, in thousandths

(* Fixed-point units *)

Scale == 100000
UvScale == 10000
MouseScale == 1000

----------------------------------------------------------------------------
(* Arithmetic helpers *)

Min(a, b) == IF a < b THEN a ELSE b
Max(a, b) == IF a > b THEN a ELSE b
Abs(a) == IF a < 0 THEN -a ELSE a

\* n/d rounded to the nearest integer (d > 0)
Rnd(n, d) == (n + d \div 2) \div d

\* Math.floor(x * q/4) for an integer x and a ratio q/4
FloorQ(x, q) == (x * q) \div 4

\* the integer square root of n >= 0
Sqrt(n) == CHOOSE r \in 0..(n + 1) : r * r <= n /\ (r + 1) * (r + 1) > n

Zero == <<0, 0, 0, 0>>

Sentinel == <<-10 * MouseScale, -10 * MouseScale>>

----------------------------------------------------------------------------
(* Field geometry *)

\* the rows of a field of h rows whose contents are kept
Rows(h) == IF h <= RowCap THEN 0..(h - 1) ELSE {h \div 2}

\* vUv of texel i of n along one axis: the texel centre (i + 0.5)/n
Uv(i, n) == ((2 * i + 1) * UvScale) \div (2 * n)

\* dot(d, d) for d = (dx, dy), in units of 1/UvScale^2
Dot(dx, dy) == dx * dx + dy * dy

\* a freshly allocated texture image: WebGL storage starts zeroed
Blank(w, h) == [r \in Rows(h) |-> [c \in 1..w |-> Zero]]

\* texture2D(tex, (ux, uy)): clamp-to-edge, at the texel the coordinate falls in
Texture2D(tex, ux, uy) ==
    LET col == (Max(0, Min(UvScale - 1, ux)) * tex.width) \div UvScale
        row == (Max(0, Min(UvScale - 1, uy)) * tex.height) \div UvScale
    IN IF row \in DOMAIN tex.data /\ col + 1 \in DOMAIN tex.data[row]
       THEN tex.data[row][col + 1]
       ELSE Zero

----------------------------------------------------------------------------
(* simulationFragmentShader *)

\* step(edge, x)
Step(edge, x) == IF x < edge THEN 0 ELSE 1

\* mix(a, b, t) for t in {0, 1}
Mix(a, b, t) == a * (1 - t) + b * t

\* float isMobile = step(500.0, resolution.x)
TierOf(res) == Step(HighTierWidth, res[1])

\* float scale = mix(2.0, 8.0, isMobile)
ScaleOf(res) == Mix(2, 8, TierOf(res))

\* float delta = deltaBase * mix(0.6, 1.0, isMobile), in thousandths
DeltaOf(res) == Rnd(DeltaBase * Mix(600, 1000, TierOf(res)), 1000)

\* smoothstep(0.02, 0.005, dist) in thousandths, dist in units of 1/UvScale:
\* t = clamp((dist - 0.02)/(0.005 - 0.02), 0, 1); t*t*(3 - 2t)
Smoothstep(dist) ==
    LET t == Max(0, Min(1000, Rnd((200 - dist) * 1000, 150)))
    IN Rnd(t * t * (3000 - 2 * t), 1000000)

\* mutant of StartImpulse: frame < 1 for frame < 2, so that only the cleared frame 0
\* would get the impulse
StartImpulseFrameZero(f, ux, uy) ==
    IF f < 1
    THEN LET distSq == Dot(ux - UvScale \div 2, uy - UvScale \div 2)
         IN IF distSq < 25000000
            THEN Rnd(25 * (Scale - Rnd(distSq * 2, 1000)), 10)
            ELSE 0
    ELSE 0

\* mutant of StartImpulse: the radius test is missing
StartImpulseWide(f, ux, uy) ==
    IF f < 2
    THEN Rnd(25 * (Scale - Rnd(Dot(ux - UvScale \div 2, uy - UvScale \div 2) * 2, 1000)), 10)
    ELSE 0

\* "Ripple initialization": the height added to the texel at (ux, uy) in frame f
StartImpulse(f, ux, uy) ==
    IF f < 2
    THEN LET distSq == Dot(ux - UvScale \div 2, uy - UvScale \div 2)
         IN IF distSq < 25000000
            THEN Rnd(25 * (Scale - Rnd(distSq * 2, 1000)), 10)
            ELSE 0
    ELSE 0

\* "Mouse interaction": the height added to the texel at (ux, uy)
PointerForce(mouse, res, ux, uy) ==
    IF mouse[1] > 0
    THEN LET dx == ux - Rnd(mouse[1] * (UvScale \div MouseScale), res[1])
             dy == uy - Rnd(mouse[2] * (UvScale \div MouseScale), res[2])
         IN IF Abs(dx) < 200 /\ Abs(dy) < 200 /\ Dot(dx, dy) < 40000
            THEN Rnd(12 * Smoothstep(Sqrt(Dot(dx, dy))) * (Scale \div 1000), 10)
            ELSE 0
    ELSE 0

\* mutant of ClearFrame: the frame-0 clear is missing
ClearNever(f) == FALSE

\* if (frame == 0) { gl_FragColor = vec4(0.0); return; }
ClearFrame(f) == f = 0

\* main(): gl_FragColor of the fragment at (ux, uy), reading texture tex
Fragment(tex, mouse, res, f, ux, uy) ==
    IF ClearFrame(f) THEN Zero
    ELSE
    LET data == Texture2D(tex, ux, uy)
        delta == DeltaOf(res)
        offset == Rnd(ScaleOf(res) * UvScale, res[1])
        left == Texture2D(tex, ux - offset, uy)[1]
        right == Texture2D(tex, ux + offset, uy)[1]
        up == right
        down == left
        dH == right + left - 2 * data[1]
        dV == up + down - 2 * data[1]
        pVel1 == data[2] + Rnd(Rnd(delta * 250, 1000) * (dH + dV), 1000)
        pressure1 == data[1] + Rnd(delta * pVel1, 1000)
        pVel2 == pVel1 - Rnd(Rnd(5 * delta, 10) * pressure1, 100000)
        pVel3 == pVel2 - Rnd(pVel2 * (2 * delta), 1000000)
        pressure2 == Rnd(pressure1 * 999, 1000)
        pressure3 == pressure2 + StartImpulse(f, ux, uy)
        pressure4 == pressure3 + PointerForce(mouse, res, ux, uy)
    IN <<pressure4, pVel3, Rnd((right - left) * 5, 10), Rnd((up - down) * 5, 10)>>

\* renderer.render(simScene, camera) into a target of w x h texels
SimPass(tex, mouse, res, f, w, h) ==
    [r \in Rows(h) |-> [c \in 1..w |-> Fragment(tex, mouse, res, f, Uv(c - 1, w), Uv(r, h))]]

\* whether any texel gets a pointer contribution in such a pass
Forced(mouse, res, w, h) ==
    \E r \in Rows(h), c \in 1..w : PointerForce(mouse, res, Uv(c - 1, w), Uv(r, h)) # 0

\* whether every kept texel of a texture image is (0,0,0,0)
Clear(data) == \A r \in DOMAIN data : \A c \in DOMAIN data[r] : data[r][c] = Zero

----------------------------------------------------------------------------
(* Inputs of the model *)

\* devicePixelRatio values, in quarters: 1.0, 2.0, 3.0
Ratios == {4, 8, 12}

\* viewports <<innerWidth, innerHeight>> of the session specification: small
\* fields (3 x 3 and 5 x 5 texels), kept whole
Views == {<<8, 8>>, <<14, 14>>}

\* viewports on both sides of the 768px threshold; fields kept on one row
TierViews == {<<767, 600>>, <<768, 600>>, <<1000, 600>>}

\* the viewport of the settling scenario: a field of 100 x 100 texels
SettleViews == {<<240, 240>>}

\* getBoundingClientRect() of the canvas
Rects == {[left |-> 2, top |-> 1, width |-> 10, height |-> 10]}

\* client coordinates of pointer and touch events
Points == {<<7, 6>>, <<5, 6>>}

\* e.touches of a touch event: no touch point, or one
TouchLists == {<<>>} \cup {<<p>> : p \in Points}

\* clock advances (ms)
Ticks == {16}
TouchTicks == {5, 16}

\* the hosts with a viewport of views and a devicePixelRatio of ratios
HostsOf(views, ratios, canvases) ==
    {[hasCanvas |-> c, innerWidth |-> v[1], innerHeight |-> v[2], devicePixelRatio |-> r] :
        c \in canvases, v \in views, r \in ratios}

----------------------------------------------------------------------------
(* Startup: the DOMContentLoaded handler, l.130-292 *)

\* mutant of CanvasFound: the canvas is not checked
CanvasAssumed(w) == TRUE

\* const canvas = document.getElementById('glcanvas'); if (!canvas) ...
CanvasFound(w) == w.hasCanvas

\* const isMobile = window.innerWidth < 768
IsMobile(innerWidth) == innerWidth < MobileMaxWidth

\* const dpr = isMobile ? 1.25 : Math.min(window.devicePixelRatio, 2), in quarters
DprOf(mobile, ratio) == IF mobile THEN 5 ELSE Min(ratio, 8)

\* const simResFactor = isMobile ? 3 : 2
FactorOf(mobile) == IF mobile THEN 3 ELSE 2

\* Math.floor(Math.floor(inner * dpr) / simResFactor)
SimRes(inner, dpr, factor) == FloorQ(inner, dpr) \div factor

\* new THREE.WebGLRenderTarget(w, h, options); tag is history: "blank" (not rendered
\* into since allocation), "fresh" (rendered from data of after the last resize) or
\* "stale" (holds, or was rendered from, data of before the last resize)
RenderTarget(w, h) == [width |-> w, height |-> h, data |-> Blank(w, h), tag |-> "blank"]

NoCycle == [seq |-> 0, frame |-> -1, src |-> 0, dst |-> 0, shown |-> 0, out |-> <<>>,
            mouse |-> Sentinel, res |-> <<0, 0>>, inClear |-> TRUE, forced |-> FALSE,
            off |-> TRUE, tag |-> "blank"]

NoTouch == [n |-> 0, updated |-> FALSE, gapUpd |-> -1, gapPass |-> 0, lastUpd |-> -1]

NoPointer == [off |-> TRUE, p |-> <<>>, rect |-> <<>>, res |-> <<0, 0>>]

InitOf(hosts) ==
    /\ pc = "loading"
    /\ win \in hosts
    /\ now = 0
    /\ boot = [isMobile |-> FALSE, dpr |-> 0, simResFactor |-> 0, simWidth |-> 0,
               simHeight |-> 0, innerWidth |-> 0]
    /\ size = <<0, 0>>
    /\ canvas = <<0, 0>>
    /\ rt = <<>>
    /\ rtA = 0
    /\ rtB = 0
    /\ simU = [textureA |-> 0, mouse |-> Sentinel, resolution |-> <<0, 0>>, time |-> 0, frame |-> 0]
    /\ renderU = [textureA |-> 0, time |-> 0]
    /\ frame = 0
    /\ lastTouchTime = 0
    /\ host = [listeners |-> {}, errors |-> 0, raf |-> FALSE]
    /\ cycle = NoCycle
    /\ touch = NoTouch
    /\ pointer = NoPointer

\* mutant of Swap: the roles are not swapped
SwapNone(a, b) == <<a, b>>

\* [rtA, rtB] = [rtB, rtA]
Swap(a, b) == <<b, a>>

\* one run of animate() from targets t with rtA = a, rtB = b, counter f, uniforms u
\* (the time uniforms are kept in ms; no shader of the core reads them)
FrameCycle(t, a, b, f, u) ==
    LET src == t[a]
        dst == t[b]
        out == SimPass(src, u.mouse, u.resolution, f, dst.width, dst.height)
        tag == IF ~ClearFrame(f) /\ src.tag = "stale" THEN "stale" ELSE "fresh"
    IN /\ simU' = [u EXCEPT !.frame = f, !.time = now, !.textureA = a]
       /\ frame' = f + 1
       /\ rt' = [t EXCEPT ![b] = [dst EXCEPT !.data = out, !.tag = tag]]
       /\ renderU' = [textureA |-> b, time |-> now]
       /\ rtA' = Swap(a, b)[1]
       /\ rtB' = Swap(a, b)[2]
       /\ cycle' = [seq |-> 1 - cycle.seq, frame |-> f, src |-> a, dst |-> b,
                    shown |-> b, out |-> out, mouse |-> u.mouse, res |-> u.resolution,
                    inClear |-> Clear(src.data),
                    forced |-> ~ClearFrame(f)
                               /\ Forced(u.mouse, u.resolution, dst.width, dst.height),
                    off |-> pointer.off, tag |-> tag]

CoreListeners == {"mousemove", "mouseleave", "touchstart", "touchmove", "touchend", "resize"}

Boot ==
    /\ pc = "loading"
    /\ IF ~CanvasFound(win)
       THEN /\ pc' = "aborted"
            /\ host' = [host EXCEPT !.errors = @ + 1]
            /\ UNCHANGED <<boot, size, canvas, rt, rtA, rtB, simU, renderU, frame, cycle>>
       ELSE LET mobile == IsMobile(win.innerWidth)
                dpr == DprOf(mobile, win.devicePixelRatio)
                factor == FactorOf(mobile)
                width == FloorQ(win.innerWidth, dpr)
                height == FloorQ(win.innerHeight, dpr)
                simWidth == width \div factor
                simHeight == height \div factor
            IN /\ pc' = "running"
               /\ boot' = [isMobile |-> mobile, dpr |-> dpr, simResFactor |-> factor,
                           simWidth |-> simWidth, simHeight |-> simHeight,
                           innerWidth |-> win.innerWidth]
               /\ size' = <<width, height>>
               /\ canvas' = <<simWidth, simHeight>>
               /\ host' = [host EXCEPT !.listeners = CoreListeners, !.raf = TRUE]
               /\ FrameCycle(<<RenderTarget(simWidth, simHeight), RenderTarget(simWidth, simHeight)>>,
                             1, 2, 0,
                             [textureA |-> 0, mouse |-> Sentinel,
                              resolution |-> <<simWidth, simHeight>>, time |-> 0, frame |-> 0])
    /\ UNCHANGED <<win, now, lastTouchTime, touch, pointer>>

\* the frame callback: animate(), l.272-289; max bounds the frame counter
Animate(max) ==
    /\ pc = "running"
    /\ host.raf
    /\ frame < max
    /\ FrameCycle(rt, rtA, rtB, frame, simU)
    /\ UNCHANGED <<pc, win, now, boot, size, canvas, lastTouchTime, host, touch, pointer>>

----------------------------------------------------------------------------
(* Resize: the window "resize" listener, l.256-269 *)

\* WebGLRenderTarget.setSize(w, h): a change of size disposes of the texture, which
\* is allocated anew (zeroed) at its next use; an unchanged size keeps the image
SetSize(target, w, h) ==
    IF target.width # w \/ target.height # h
    THEN RenderTarget(w, h)
    ELSE [target EXCEPT !.tag = IF @ = "blank" THEN "blank" ELSE "stale"]

\* mutant of SetSizes: only rtA is resized
SetSizesFirst(t, a, b, w, h) == [t EXCEPT ![a] = SetSize(@, w, h)]

\* rtA.setSize(simWidth, simHeight); rtB.setSize(simWidth, simHeight)
SetSizes(t, a, b, w, h) == [t EXCEPT ![a] = SetSize(@, w, h), ![b] = SetSize(@, w, h)]

\* mutant of ResizeTier: the tier is decided again from the new viewport width
ResizeTierAgain(w) ==
    [dpr |-> DprOf(IsMobile(w), win.devicePixelRatio), simResFactor |-> FactorOf(IsMobile(w))]

\* the pixel ratio and downscale factor the resize handler computes with
ResizeTier(w) == [dpr |-> boot.dpr, simResFactor |-> boot.simResFactor]

ResizeTo(w, h) ==
    LET width == FloorQ(w, ResizeTier(w).dpr)
        height == FloorQ(h, ResizeTier(w).dpr)
        simWidth == width \div ResizeTier(w).simResFactor
        simHeight == height \div ResizeTier(w).simResFactor
    IN /\ win' = [win EXCEPT !.innerWidth = w, !.innerHeight = h]
       /\ size' = <<width, height>>
       /\ canvas' = <<simWidth, simHeight>>
       /\ rt' = SetSizes(rt, rtA, rtB, simWidth, simHeight)
       /\ simU' = [simU EXCEPT !.resolution = <<simWidth, simHeight>>]
       /\ frame' = 0

Resize(views) ==
    /\ pc = "running"
    /\ "resize" \in host.listeners
    /\ \E v \in views : ResizeTo(v[1], v[2])
    /\ UNCHANGED <<pc, now, boot, rtA, rtB, renderU, lastTouchTime, host, cycle, touch,
                   pointer>>

----------------------------------------------------------------------------
(* Input adapter, l.212-253 *)

\* (clientX - rect.left) / rect.width * w, and the flipped y, in 1/MouseScale texels
MapPointer(p, rect, w, h) ==
    << Rnd((p[1] - rect.left) * w * MouseScale, rect.width),
       Rnd((rect.height - (p[2] - rect.top)) * h * MouseScale, rect.height) >>

\* updateMousePosition(clientX, clientY): simWidth, simHeight are the startup consts
UpdateMousePosition(p, rect) ==
    /\ simU' = [simU EXCEPT !.mouse = MapPointer(p, rect, boot.simWidth, boot.simHeight)]
    /\ pointer' = [off |-> FALSE, p |-> p, rect |-> rect, res |-> simU.resolution]

\* mutant of PointerOff: the pointer is left where it was
PointerKept ==
    /\ pointer' = [NoPointer EXCEPT !.off = TRUE]
    /\ UNCHANGED simU

\* simMaterial.uniforms.mouse.value.set(-10, -10)
PointerOff ==
    /\ simU' = [simU EXCEPT !.mouse = Sentinel]
    /\ pointer' = [NoPointer EXCEPT !.off = TRUE]

MouseMove ==
    /\ pc = "running"
    /\ "mousemove" \in host.listeners
    /\ \E p \in Points, rect \in Rects : UpdateMousePosition(p, rect)
    /\ UNCHANGED <<pc, win, now, boot, size, canvas, rt, rtA, rtB, renderU, frame,
                   lastTouchTime, host, cycle, touch>>

MouseLeave ==
    /\ pc = "running"
    /\ "mouseleave" \in host.listeners
    /\ PointerOff
    /\ UNCHANGED <<pc, win, now, boot, size, canvas, rt, rtA, rtB, renderU, frame,
                   lastTouchTime, host, cycle, touch>>

TouchStart ==
    /\ pc = "running"
    /\ "touchstart" \in host.listeners
    /\ \E touches \in TouchLists, rect \in Rects :
          IF Len(touches) > 0
          THEN UpdateMousePosition(touches[1], rect)
          ELSE /\ pointer' = [pointer EXCEPT !.off = FALSE]
               /\ UNCHANGED simU
    /\ UNCHANGED <<pc, win, now, boot, size, canvas, rt, rtA, rtB, renderU, frame,
                   lastTouchTime, host, cycle, touch>>

\* mutant of Throttled: a touchmove exactly 16 ms later is still dropped
ThrottledLate(t, last) == t - last <= TouchThrottle

\* if (now - lastTouchTime < 16) return
Throttled(t, last) == t - last < TouchThrottle

\* handleTouchMove(e), l.225-233
HandleTouchMove(touches, rect) ==
    LET pass == ~Throttled(now, lastTouchTime)
        upd == pass /\ Len(touches) > 0
    IN /\ lastTouchTime' = IF pass THEN now ELSE lastTouchTime
       /\ IF upd
          THEN UpdateMousePosition(touches[1], rect)
          ELSE /\ pointer' = [pointer EXCEPT !.off = IF pass THEN FALSE ELSE @]
               /\ UNCHANGED simU
       /\ touch' = [n |-> Len(touches), updated |-> upd,
                    gapUpd |-> IF touch.lastUpd < 0 THEN -1 ELSE now - touch.lastUpd,
                    gapPass |-> now - lastTouchTime,
                    lastUpd |-> IF upd THEN now ELSE touch.lastUpd]

TouchMove ==
    /\ pc = "running"
    /\ "touchmove" \in host.listeners
    /\ \E touches \in TouchLists, rect \in Rects : HandleTouchMove(touches, rect)
    /\ UNCHANGED <<pc, win, now, boot, size, canvas, rt, rtA, rtB, renderU, frame,
                   host, cycle>>

TouchEnd ==
    /\ pc = "running"
    /\ "touchend" \in host.listeners
    /\ PointerOff
    /\ UNCHANGED <<pc, win, now, boot, size, canvas, rt, rtA, rtB, renderU, frame,
                   lastTouchTime, host, cycle, touch>>

\* time passes between handlers
Tick(ds, max) ==
    /\ \E d \in ds : now + d <= max /\ now' = now + d
    /\ UNCHANGED <<pc, win, boot, size, canvas, rt, rtA, rtB, simU, renderU, frame,
                   lastTouchTime, host, cycle, touch, pointer>>

----------------------------------------------------------------------------
(* Specifications *)

\* the session: every handler, on small fields
Init == InitOf(HostsOf(Views, {4}, BOOLEAN))

Next ==
    \/ Boot
    \/ Animate(MaxFrame)
    \/ Resize(Views)
    \/ MouseMove
    \/ MouseLeave
    \/ TouchStart
    \/ TouchMove
    \/ TouchEnd
    \/ Tick(Ticks, MaxTime)

Spec == Init /\ [][Next]_vars

\* the touch throttle: touch events on a finer clock
InitTouch == InitOf(HostsOf({<<8, 8>>}, {4}, {TRUE}))

NextTouch ==
    \/ Boot
    \/ TouchStart
    \/ TouchMove
    \/ TouchEnd
    \/ Tick(TouchTicks, MaxTouchTime)

SpecTouch == InitTouch /\ [][NextTouch]_vars

\* the device tier: startup and resizes across the 768px threshold
InitTier == InitOf(HostsOf(TierViews, Ratios, {TRUE}))

NextTier ==
    \/ Boot
    \/ Animate(MaxFrame)
    \/ Resize(TierViews)

SpecTier == InitTier /\ [][NextTier]_vars

\* the settling scenario: a 100 x 100 field stepped with no pointer and no resize
InitSettle == InitOf(HostsOf(SettleViews, {4}, {TRUE}))

NextSettle ==
    \/ Boot
    \/ Animate(SettleSteps)

SpecSettle == InitSettle /\ [][NextSettle]_vars

----------------------------------------------------------------------------
(* Claims *)

\* a frame cycle has just run
CycleStep == cycle'.seq # cycle.seq

\* a resize has taken the field away from its startup resolution
Resized == pc = "running" /\ simU.resolution # <<boot.simWidth, boot.simHeight>>

\* C1, as stated: in every frame cycle the simulation step reads the active buffer
\* (rtA) and writes the other one (rtB), the presentation pass reads the buffer just
\* written, the roles are swapped at the end, and the input of each step is exactly
\* the output of the previous cycle's step, whatever resize and pointer events come
\* between the frames.
C1_Original ==
    [][CycleStep =>
         /\ cycle'.src # cycle'.dst
         /\ cycle'.shown = cycle'.dst
         /\ rt'[cycle'.shown].data = cycle'.out
         /\ rtA' = cycle'.dst /\ rtB' = cycle'.src
         /\ cycle.dst # 0 =>
               /\ cycle'.src = rtA /\ cycle'.dst = rtB
               /\ cycle'.src = cycle.dst
               /\ rt[cycle'.src].data = cycle.out]_vars

\* C1, amended: the same, except that the contents of the input are those the
\* previous step wrote only for a step with frameIndex >= 1; the step with
\* frameIndex 0 that follows a resize reads the buffer the resize reallocated.
C1_PingPong ==
    [][CycleStep =>
         /\ cycle'.src # cycle'.dst
         /\ cycle'.shown = cycle'.dst
         /\ rt'[cycle'.shown].data = cycle'.out
         /\ rtA' = cycle'.dst /\ rtB' = cycle'.src
         /\ cycle.dst # 0 =>
               /\ cycle'.src = rtA /\ cycle'.dst = rtB
               /\ cycle'.src = cycle.dst
               /\ cycle'.frame # 0 => rt[cycle'.src].data = cycle.out]_vars

\* a step with frameIndex 2 wrote a non-zero field, after a resize and with the
\* pointer on the field
C1_Witness ==
    /\ Resized
    /\ cycle.frame = 2
    /\ ~Clear(cycle.out)
    /\ cycle.mouse[1] > 0

\* C2: every simulation step with frameIndex 0 writes (0,0,0,0) to every texel,
\* whatever its input buffer holds and wherever the pointer is, and no presentation
\* pass reads a buffer that holds, or was computed from, data of before the last resize.
C2_ClearOnFrameZero ==
    /\ cycle.frame = 0 => Clear(cycle.out)
    /\ cycle.tag # "stale"

\* a step with frameIndex 0 ran after a resize, on a non-zero input buffer left from
\* before the resize, with the pointer on the field
C2_Witness ==
    /\ pc = "running"
    /\ cycle.frame = 0
    /\ ~cycle.inClear
    /\ rt[cycle.src].tag = "stale"
    /\ cycle.mouse[1] > 0
    /\ Clear(cycle.out)

\* C3: between handlers both buffers have the same dimensions, equal to the
\* resolution uniform and to floor(floor(inner * dpr) / simResFactor) of the current
\* viewport; a resize leaves the frame counter at 0; the dimensions change in no
\* other event.
C3_Dimensions ==
    pc = "running" =>
        /\ rt[1].width = rt[2].width
        /\ rt[1].height = rt[2].height
        /\ simU.resolution = <<rt[1].width, rt[1].height>>
        /\ simU.resolution = <<((win.innerWidth * boot.dpr) \div 4) \div boot.simResFactor,
                               ((win.innerHeight * boot.dpr) \div 4) \div boot.simResFactor>>

C3_Resolution ==
    /\ []C3_Dimensions
    /\ [][pc = "running" =>
            /\ win' # win => frame' = 0
            /\ (simU'.resolution # simU.resolution \/ rt'[1].width # rt[1].width
                \/ rt'[1].height # rt[1].height \/ rt'[2].width # rt[2].width
                \/ rt'[2].height # rt[2].height) => win' # win /\ frame' = 0]_vars

\* right after a resize that changed the resolution, frames having run before it
C3_Witness ==
    /\ Resized
    /\ frame = 0
    /\ cycle.frame >= 1
    /\ rt[1].width = simU.resolution[1]
    /\ rt[2].width = simU.resolution[1]

\* the texels <<row, column>> of the field the last cycle wrote
OutTexels == {<<r, c>> : r \in DOMAIN cycle.out, c \in 1..cycle.res[1]}

\* the height the last cycle wrote to texel t
OutHeight(t) == cycle.out[t[1]][t[2]][1]

\* the squared normalized distance of texel t to the field centre, in 1/UvScale^2
CentreDistSq(t) ==
    Dot(Uv(t[2] - 1, cycle.res[1]) - UvScale \div 2, Uv(t[1], cycle.res[2]) - UvScale \div 2)

\* distSq < 0.25
InRadius(t) == CentreDistSq(t) < 25000000

\* 2.5 * (1 - 2 * distSq), in units of 1/Scale
ImpulseAt(t) == Rnd(25 * (Scale - Rnd(2 * CentreDistSq(t), 1000)), 10)

\* the pointer's contribution to texel t in the last cycle
ForceAt(t) ==
    PointerForce(cycle.mouse, cycle.res, Uv(t[2] - 1, cycle.res[1]), Uv(t[1], cycle.res[2]))

\* among the texels within the radius, the nearer to the centre the higher
NearerHigher ==
    \A a \in OutTexels, b \in OutTexels :
        (InRadius(a) /\ InRadius(b) /\ CentreDistSq(a) < CentreDistSq(b))
            => OutHeight(a) > OutHeight(b)

\* C4, as stated: in every step with frameIndex 0 or 1, each texel with distSq < 0.25
\* has 2.5*(1 - 2*distSq) added to its height, so that among those texels the height
\* grows with proximity to the centre; the other texels receive no impulse.
C4_Original ==
    cycle.frame \in {0, 1} =>
        /\ \A t \in OutTexels :
              OutHeight(t) = (IF InRadius(t) THEN ImpulseAt(t) ELSE 0) + ForceAt(t)
        /\ NearerHigher

\* C4, amended: the impulse is added in the step with frameIndex 1 only (the step
\* with frameIndex 0 writes zero to every texel), and the height grows with
\* proximity to the centre when the pointer contributes to no texel in that step.
C4_Impulse ==
    /\ cycle.frame = 0 => \A t \in OutTexels : OutHeight(t) = 0
    /\ cycle.frame = 1 =>
          /\ \A t \in OutTexels :
                OutHeight(t) = (IF InRadius(t) THEN ImpulseAt(t) ELSE 0) + ForceAt(t)
          /\ ~cycle.forced => NearerHigher

\* a step with frameIndex 1 on a field with texels inside and outside the radius,
\* the pointer on the field but out of reach of every texel
C4_Witness ==
    /\ cycle.frame = 1
    /\ cycle.mouse[1] > 0
    /\ ~cycle.forced
    /\ \E a \in OutTexels, b \in OutTexels :
          /\ InRadius(a) /\ InRadius(b) /\ ~(a = b)
          /\ OutHeight(a) > OutHeight(b) /\ OutHeight(b) > 0
    /\ \E t \in OutTexels : ~InRadius(t) /\ OutHeight(t) = 0

\* C5, as stated: a touchmove less than 16 ms after the last touchmove that updated
\* the pointer does not update it, and a touchmove with a touch point 16 ms or more
\* after that one does; so two updates by touchmove are at least 16 ms apart.
\* (touch.gapUpd is the time since the last updating touchmove, -1 if there was none.)
C5_Original ==
    /\ (touch.gapUpd >= 0 /\ touch.gapUpd < 16) => ~touch.updated
    /\ (touch.gapUpd >= 16 /\ touch.n > 0) => touch.updated
    /\ (touch.updated /\ touch.gapUpd >= 0) => touch.gapUpd >= 16

\* C5, amended: the 16 ms are counted from the last touchmove that passed the
\* throttle, with or without a touch point (from the time origin if there was none):
\* a touchmove with a touch point 16 ms or more after it updates the pointer, one
\* less than 16 ms after it does not; and a touchmove less than 16 ms after the last
\* updating one never updates, so two updates are at least 16 ms apart.
\* (touch.gapPass is now - lastTouchTime as the handler read it.)
C5_Throttle ==
    /\ (touch.gapUpd >= 0 /\ touch.gapUpd < 16) => ~touch.updated
    /\ (touch.gapPass >= 16 /\ touch.n > 0) => touch.updated
    /\ touch.gapPass < 16 => ~touch.updated
    /\ (touch.updated /\ touch.gapUpd >= 0) => touch.gapUpd >= 16

\* a touchmove updated the pointer 16 ms or more after the previous updating one
C5_Witness ==
    /\ touch.updated
    /\ touch.gapUpd >= 16
    /\ touch.n > 0
    /\ simU.mouse # Sentinel

\* C6: while no pointer event has come since startup or the last mouseleave or
\* touchend (an event being a mousemove, a touchstart or a touchmove that passed
\* the throttle), the pointer is the sentinel (-10,-10) and a simulation step adds
\* no pointer height to any texel; frame cycles and resizes leave the pointer alone.
C6_PointerOff ==
    /\ [](pc = "running" /\ pointer.off => simU.mouse = <<-10 * MouseScale, -10 * MouseScale>>)
    /\ [](cycle.off => ~cycle.forced /\ \A t \in OutTexels : ForceAt(t) = 0)
    /\ [][(CycleStep \/ win' # win \/ frame' # frame) => simU'.mouse = simU.mouse]_vars

\* a step with frameIndex >= 1 ran after the pointer had been on the field and a
\* mouseleave or touchend had taken it off
C6_Witness ==
    /\ cycle.off
    /\ cycle.frame >= 1
    /\ cycle.mouse = Sentinel
    /\ touch.lastUpd >= 0
    /\ ~Clear(cycle.out)

\* C7: every pointer update maps the client position with the current field
\* resolution: x = (clientX - left)/width * fieldWidth, y = (1 - (clientY - top)/
\* height) * fieldHeight, fieldWidth x fieldHeight being the resolution uniform at
\* the time of the update (pointer.res), also after resizes.
C7_Mapping ==
    (pc = "running" /\ pointer.p # <<>>) =>
        simU.mouse = MapPointer(pointer.p, pointer.rect, pointer.res[1], pointer.res[2])

\* C8: a resize never changes the tier: the pixel ratio and the downscale factor
\* are those chosen from the startup viewport width (boot.innerWidth; mobile iff it
\* is below 768), and the resolution is computed from the current viewport with them.
C8_TierFixed ==
    pc = "running" =>
        LET mobile == boot.innerWidth < 768
            dpr == IF mobile THEN 5 ELSE Min(win.devicePixelRatio, 8)
            factor == IF mobile THEN 3 ELSE 2
        IN /\ boot.isMobile = mobile
           /\ boot.dpr = dpr
           /\ boot.simResFactor = factor
           /\ simU.resolution = <<((win.innerWidth * dpr) \div 4) \div factor,
                                  ((win.innerHeight * dpr) \div 4) \div factor>>
           /\ rt[1].width = simU.resolution[1]
           /\ rt[2].width = simU.resolution[1]

\* a mobile startup resized above the threshold, frames having run since
C8_Witness ==
    /\ pc = "running"
    /\ boot.innerWidth < 768
    /\ win.innerWidth >= 768
    /\ boot.isMobile
    /\ cycle.frame >= 1
    /\ cycle.res # <<boot.simWidth, boot.simHeight>>

\* 1e-3, in units of 1/Scale
Settled == Scale \div 1000

\* C9, as stated: from a 100 x 100 field with frameIndex 0 and the pointer at the
\* sentinel, after 500 steps with no pointer input and no resize every texel has
\* |height| < 1e-3.  (Checked on the kept middle row of the field: a texel of that
\* row at or above 1e-3 refutes the bound for the whole field.)
C9_Original ==
    (pc = "running" /\ frame = SettleSteps) =>
        \A t \in OutTexels : Abs(OutHeight(t)) < Settled

\* C9, amended: the impulse has not settled after 500 steps: after every step
\* from the second to the 500th some texel has |height| >= 1e-3.
C9_NotSettled ==
    (pc = "running" /\ frame >= 2 /\ frame <= SettleSteps) =>
        \E t \in OutTexels : Abs(OutHeight(t)) >= Settled

\* the 500th step of the scenario has run
C9_Witness ==
    /\ pc = "running"
    /\ frame = SettleSteps
    /\ cycle.res = <<100, 100>>
    /\ cycle.mouse = Sentinel
    /\ \E t \in OutTexels : Abs(OutHeight(t)) >= Settled

\* C10: with no canvas element the handler aborts: one error is reported, no
\* buffer is allocated, no listener of the core is registered, no simulation step
\* or presentation pass runs, no frame callback is requested, and nothing is retried.
C10_Abort ==
    /\ []((pc # "loading" /\ ~win.hasCanvas) => pc = "aborted")
    /\ [](pc = "aborted" =>
            /\ host = [listeners |-> {}, errors |-> 1, raf |-> FALSE]
            /\ rt = <<>>
            /\ cycle = NoCycle
            /\ renderU.textureA = 0)
    /\ [][pc = "aborted" =>
            /\ pc' = "aborted"
            /\ UNCHANGED <<host, rt, rtA, rtB, simU, renderU, frame, cycle, boot>>]_vars

\* the handler has aborted for want of a canvas
C10_Witness ==
    /\ pc = "aborted"
    /\ ~win.hasCanvas
    /\ host.errors = 1

\* C11: in every state of the running core, at startup and after any resizes, the
\* tier the simulation step derives from the resolution uniform (high iff the
\* field width is at least 500: scale 8 and delta 0.72 * 1.0; otherwise scale 2
\* and delta 0.72 * 0.6) agrees with the device tier chosen at startup (desktop
\* iff the startup viewport width, boot.innerWidth, is at least 768).
C11_TierAgrees ==
    pc = "running" =>
        LET desktop == boot.innerWidth >= 768
        IN /\ TierOf(simU.resolution) = 1 <=> simU.resolution[1] >= 500
           /\ TierOf(simU.resolution) = 1 <=> desktop
           /\ ScaleOf(simU.resolution) = (IF desktop THEN 8 ELSE 2)
           /\ DeltaOf(simU.resolution) = (IF desktop THEN 720 ELSE 432)

====
